---- MODULE Spec2Model ----
(***************************************************************************)
(* Model of github.com/quietpleasure/discovery:                            *)
(*   - retryer.retry and retryer.CheckHealthAndReconnect                   *)
(*     (src/consul/consul.go, lines 123-224): the health-loop supervisor   *)
(*     goroutine, the retry goroutine it launches, the unbuffered          *)
(*     feedback channel between them, the caller's logFeedback channel     *)
(*     and the driving context;                                            *)
(*   - consul.targetQueryValues and the With... option setters             *)
(*     (src/unnamed/part_001).                                             *)
(*                                                                         *)
(* Values.  Registry handles are integers: 0 is the handle the caller      *)
(* passed in, n >= 1 is the handle returned by the n-th call of            *)
(* MakeRegistryAndRegisterService, NilReg is the nil pointer.  Errors are  *)
(* integers: NoErr is nil, n >= 1 is the error returned by the n-th call,  *)
(* CtxErr is ctx.Err() after cancellation, PushErr is the error of a       *)
(* failed ReportHealthyState.  A time.Duration is a signed 64-bit integer; *)
(* it is represented by the set of positions of its one bits (bit 63 is    *)
(* the sign), because 2^n seconds does not fit the integers of the model   *)
(* checker.                                                                *)
(***************************************************************************)
EXTENDS Integers, Sequences, FiniteSets, TLC

----------------------------------------------------------------------------
(* Bounds of the model *)

\* the wrapped operation fails at most MaxFails times in one episode
MaxFails == 35

\* largest bounded attempt count the caller passes as maxAttempts
MaxMax == 3

\* longest list of option setters passed to targetQueryValues
MaxOpts == 2

----------------------------------------------------------------------------
(* Values *)

NilReg == -1
NoErr == 0
CtxErr == -1
PushErr == -2

\* time.Second in nanoseconds
Second == 1000000000

\* width of time.Duration (int64)
DurationBits == 64

\* the one bits of a non-negative integer below 2^31
BitsOf(n) == {i \in 0..30 : (n \div (2^i)) % 2 = 1}

\* d << n on a signed 64-bit integer: bits shifted out at the top are lost,
\* a shift count of 64 or more gives 0
Shl(d, n) == {i + n : i \in {j \in d : j + n < DurationBits}}

\* d * 2^n as a mathematical integer (no width)
ExactShl(d, n) == {i + n : i \in d}

\* the delay of line 162: time.Second << uint(attempt)
Delay(attempt) == Shl(BitsOf(Second), attempt)

\* a Duration is negative when its sign bit is set
IsNegative(d) == (DurationBits - 1) \in d

\* a Duration is positive
IsPositive(d) == d # {} /\ ~IsNegative(d)

\* the Duration d is exactly 2^n seconds
IsPow2Seconds(d, n) == d = ExactShl(BitsOf(Second), n) /\ ~IsNegative(d)

\* the zero Duration, used where an event carries no delay
NoDelay == {}

(* Feedback{Error, Message}: the message is kept structured, as the text,
   the attempt number and the delay that fmt.Sprintf puts into it *)
Feedback(error, text, att, dly) ==
    [Error |-> error, Message |-> [text |-> text, attempt |-> att, delay |-> dly]]

\* line 188: the supervisor's own announcement
AnnounceEvent(error) == Feedback(error, "trying new make registry and register", 0, NoDelay)

\* line 151
SuccessEvent(att) == Feedback(NoErr, "retry attempt successful", att, NoDelay)

\* line 157
ExhaustedEvent == Feedback(NoErr, "all attempts used", 0, NoDelay)

\* line 163
FailedEvent(error, att, dly) == Feedback(error, "retry attempt failed repeat after", att, dly)

----------------------------------------------------------------------------
(* State *)

VARIABLES
    maxAttempts, \* the variadic maxAttempts of CheckHealthAndReconnect: <<>> or <<n>>
    cancelled,   \* ctx.Done() is closed
    spc,         \* position of the supervisor goroutine
    reg,         \* the supervisor's active registry handle (parameter reg)
    lastPush,    \* handle of the most recent ReportHealthyState call
    perr,        \* err of line 185
    f,           \* loop variable of the range over feedback
    fbClosed,    \* the feedback channel of line 178 is closed
    panics,      \* number of panic(err) executed
    logged,      \* events the caller has received from logFeedback
    rpc,         \* position of the retry goroutine of line 201
    attempt,     \* retry: attempt counter
    calls,       \* retry: number of calls of the wrapped function so far
    rreg,        \* retry: reg of line 149
    rlerr,       \* retry: err of line 149
    delay,       \* retry: delay of line 162
    waits,       \* retry: delays of the select statements entered so far
    sent,        \* retry: events sent on feedback so far
    outcome,     \* retry: which return statement was executed
    retv,        \* retry: the values returned by retryFunc
    newreg,      \* line 198
    rerr,        \* line 199
    optsIn,      \* targetQueryValues: the opts argument
    optPc,       \* targetQueryValues: position
    optOut,      \* targetQueryValues: the result
    conn,        \* ServiceConnectGRPC: the result
    addrIn,      \* ServiceAddresses: what the backend's Health().Service returns
    addrPc,      \* ServiceAddresses: position
    addrOut      \* ServiceAddresses: the result

supvars == <<maxAttempts, cancelled, spc, reg, lastPush, perr, f, fbClosed, panics,
             logged, rpc, attempt, calls, rreg, rlerr, delay, waits, sent, outcome,
             retv, newreg, rerr>>

optvars == <<optsIn, optPc, optOut, conn>>

addrvars == <<addrIn, addrPc, addrOut>>

vars == <<maxAttempts, cancelled, spc, reg, lastPush, perr, f, fbClosed, panics,
          logged, rpc, attempt, calls, rreg, rlerr, delay, waits, sent, outcome,
          retv, newreg, rerr, optsIn, optPc, optOut, conn, addrIn, addrPc, addrOut>>

\* the values of maxAttempts the model passes: omitted, 0, negative, bounded
MaxAttemptsInputs == {<<>>} \cup {<<n>> : n \in -1..MaxMax}

----------------------------------------------------------------------------
(* retry, lines 141-175 *)

\* lines 142-145: max is 0 unless maxAttempts has an element
RetryMax(ma) == IF Len(ma) > 0 THEN ma[1] ELSE 0

\* lines 192-195: max is 0 unless maxAttempts is not nil
SupMax(ma) == IF ma # <<>> THEN ma[1] ELSE 0

\* the max of the retry closure the supervisor builds at line 196
Max == RetryMax(<<SupMax(maxAttempts)>>)

\* the test of line 156 with attempts counted from 0
ExhaustedOffByOne(att, max) == att = max + 1 /\ max # 0

\* the test of line 156 as "attempt >= max", without the test of max
ExhaustedAtLeast(att, max) == att >= max

\* the test of line 156 as "attempt >= max && max != 0"
ExhaustedAtLeastNonZero(att, max) == att >= max /\ max # 0

\* line 156
Exhausted(att, max) == att = max /\ max # 0

\* a retry that sends the failure event where it should send 'all attempts used'
PendingEventNoTerminal ==
    CASE rpc = "sendOK" -> SuccessEvent(attempt)
      [] rpc = "sendExhausted" -> FailedEvent(rlerr, attempt, Delay(attempt))
      [] rpc = "sendFailed" -> FailedEvent(rlerr, attempt, delay)

\* the event the retry goroutine is blocked sending, by position
PendingEvent ==
    CASE rpc = "sendOK" -> SuccessEvent(attempt)
      [] rpc = "sendExhausted" -> ExhaustedEvent
      [] rpc = "sendFailed" -> FailedEvent(rlerr, attempt, delay)

SendPcs == {"sendOK", "sendExhausted", "sendFailed"}

\* what the failing branch does after line 155: the position it goes to
AfterFailure(att, max) == IF Exhausted(att, max) THEN "sendExhausted" ELSE "sendFailed"

(* line 149 and the branch on its result.  The wrapped function is
   consul.MakeRegistryAndRegisterService: it returns (handle, nil) or
   (nil, err).  *)
RetryCall ==
    /\ rpc = "call"
    /\ \E ok \in BOOLEAN :
        /\ ok \/ calls < MaxFails
        /\ calls' = calls + 1
        /\ IF ok
           THEN /\ rreg' = calls + 1
                /\ rlerr' = NoErr
                /\ rpc' = "sendOK"
                /\ delay' = delay
           ELSE /\ rreg' = NilReg
                /\ rlerr' = calls + 1
                /\ rpc' = AfterFailure(attempt, Max)
                /\ delay' = IF Exhausted(attempt, Max) THEN delay ELSE Delay(attempt)
    /\ UNCHANGED <<maxAttempts, cancelled, spc, reg, lastPush, perr, f, fbClosed,
                   panics, logged, attempt, waits, sent, outcome, retv, newreg, rerr>>
    /\ UNCHANGED <<optvars, addrvars>>

(* lines 167-168 and 172: the timer fires.  Once ctx is cancelled a timer
   with a positive delay that has not fired yet loses against ctx.Done();
   a timer with a delay <= 0 fires at once and select may choose it.  *)
RetryTimer ==
    /\ rpc = "wait"
    /\ ~cancelled \/ ~IsPositive(delay)
    /\ attempt' = attempt + 1
    /\ rpc' = "call"
    /\ UNCHANGED <<maxAttempts, cancelled, spc, reg, lastPush, perr, f, fbClosed,
                   panics, logged, calls, rreg, rlerr, delay, waits, sent, outcome,
                   retv, newreg, rerr>>
    /\ UNCHANGED <<optvars, addrvars>>

\* a cancellation branch that returns reg and err of the failed call
RetryCancelOperationError ==
    /\ rpc = "wait"
    /\ cancelled
    /\ retv' = <<rreg, rlerr>>
    /\ outcome' = "Cancelled"
    /\ rpc' = "ret"
    /\ UNCHANGED <<maxAttempts, cancelled, spc, reg, lastPush, perr, f, fbClosed,
                   panics, logged, attempt, calls, rreg, rlerr, delay, waits, sent,
                   newreg, rerr>>
    /\ UNCHANGED <<optvars, addrvars>>

\* a cancellation branch in a retry that closes feedback when it returns,
\* before the goroutine has assigned the returned values
RetryCancelClosesFeedback ==
    /\ rpc = "wait"
    /\ cancelled
    /\ retv' = <<NilReg, CtxErr>>
    /\ outcome' = "Cancelled"
    /\ rpc' = "ret"
    /\ fbClosed' = TRUE
    /\ UNCHANGED <<maxAttempts, cancelled, spc, reg, lastPush, perr, f,
                   panics, logged, attempt, calls, rreg, rlerr, delay, waits, sent,
                   newreg, rerr>>
    /\ UNCHANGED <<optvars, addrvars>>

\* lines 169-170: return nil, ctx.Err()
RetryCancel ==
    /\ rpc = "wait"
    /\ cancelled
    /\ retv' = <<NilReg, CtxErr>>
    /\ outcome' = "Cancelled"
    /\ rpc' = "ret"
    /\ UNCHANGED <<maxAttempts, cancelled, spc, reg, lastPush, perr, f, fbClosed,
                   panics, logged, attempt, calls, rreg, rlerr, delay, waits, sent,
                   newreg, rerr>>
    /\ UNCHANGED <<optvars, addrvars>>

\* a goroutine that closes feedback after it assigned the returned values
RetryReturnClosesFeedback ==
    /\ rpc = "ret"
    /\ newreg' = retv[1]
    /\ rerr' = retv[2]
    /\ rpc' = "done"
    /\ fbClosed' = TRUE
    /\ UNCHANGED <<maxAttempts, cancelled, spc, reg, lastPush, perr, f,
                   panics, logged, attempt, calls, rreg, rlerr, delay, waits, sent,
                   outcome, retv>>
    /\ UNCHANGED <<optvars, addrvars>>

\* line 202: the goroutine assigns the returned values and ends
RetryReturn ==
    /\ rpc = "ret"
    /\ newreg' = retv[1]
    /\ rerr' = retv[2]
    /\ rpc' = "done"
    /\ UNCHANGED <<maxAttempts, cancelled, spc, reg, lastPush, perr, f, fbClosed,
                   panics, logged, attempt, calls, rreg, rlerr, delay, waits, sent,
                   outcome, retv>>
    /\ UNCHANGED <<optvars, addrvars>>

----------------------------------------------------------------------------
(* CheckHealthAndReconnect, lines 177-224 *)

\* the context is cancelled by its owner, at any time
Cancel ==
    /\ ~cancelled
    /\ cancelled' = TRUE
    /\ UNCHANGED <<maxAttempts, spc, reg, lastPush, perr, f, fbClosed, panics, logged,
                   rpc, attempt, calls, rreg, rlerr, delay, waits, sent, outcome,
                   retv, newreg, rerr>>
    /\ UNCHANGED <<optvars, addrvars>>

\* lines 182-183: return; the deferred close(feedback) of line 179 runs
SupCtxDone ==
    /\ spc = "check"
    /\ cancelled
    /\ spc' = "returned"
    /\ fbClosed' = TRUE
    /\ UNCHANGED <<maxAttempts, cancelled, reg, lastPush, perr, f, panics, logged,
                   rpc, attempt, calls, rreg, rlerr, delay, waits, sent, outcome,
                   retv, newreg, rerr>>
    /\ UNCHANGED <<optvars, addrvars>>

\* lines 184-185: the liveness push on the active handle succeeds or fails
SupPush ==
    /\ spc = "check"
    /\ ~cancelled
    /\ lastPush' = reg
    /\ \E ok \in BOOLEAN :
        IF ok THEN perr' = NoErr /\ spc' = "sleep"
              ELSE perr' = PushErr /\ spc' = "announce"
    /\ UNCHANGED <<maxAttempts, cancelled, reg, f, fbClosed, panics, logged,
                   rpc, attempt, calls, rreg, rlerr, delay, waits, sent, outcome,
                   retv, newreg, rerr>>
    /\ UNCHANGED <<optvars, addrvars>>

\* a supervisor that starts the goroutine and goes on to line 222 without
\* ranging over feedback
SupAnnounceNoDrain ==
    /\ spc = "announce"
    /\ logged' = Append(logged, AnnounceEvent(perr))
    /\ newreg' = NilReg
    /\ rerr' = NoErr
    /\ rpc' = "call"
    /\ attempt' = 1
    /\ calls' = 0
    /\ sent' = <<>>
    /\ waits' = <<>>
    /\ outcome' = "none"
    /\ spc' = "sleep"
    /\ UNCHANGED <<maxAttempts, cancelled, reg, lastPush, perr, f, fbClosed, panics,
                   rreg, rlerr, delay, retv>>
    /\ UNCHANGED <<optvars, addrvars>>

(* lines 188-203: the caller receives the announcement; the supervisor
   builds retryFunc, declares newreg and rerr and starts the goroutine,
   which begins at line 147 *)
SupAnnounce ==
    /\ spc = "announce"
    /\ logged' = Append(logged, AnnounceEvent(perr))
    /\ newreg' = NilReg
    /\ rerr' = NoErr
    /\ rpc' = "call"
    /\ attempt' = 1
    /\ calls' = 0
    /\ sent' = <<>>
    /\ waits' = <<>>
    /\ outcome' = "none"
    /\ spc' = "range"
    /\ UNCHANGED <<maxAttempts, cancelled, reg, lastPush, perr, f, fbClosed, panics,
                   rreg, rlerr, delay, retv>>
    /\ UNCHANGED <<optvars, addrvars>>

(* line 204, one receive of the range loop.  On an open channel it takes the
   event the retry goroutine is sending; the retry goroutine goes on to its
   return statement (lines 154, 160) or to the select of line 167.  On a
   closed channel the loop ends and lines 213-218 run.  *)
SupRange ==
    /\ spc = "range"
    /\ IF fbClosed
       THEN /\ IF rerr = NoErr
               THEN /\ reg' = newreg
                    /\ spc' = "sleep"
                    /\ UNCHANGED <<panics>>
               ELSE /\ panics' = panics + 1
                    /\ spc' = "panicked"
                    /\ UNCHANGED <<reg>>
            /\ UNCHANGED <<f, sent, rpc, outcome, retv, waits>>
       ELSE /\ rpc \in SendPcs
            /\ f' = PendingEvent
            /\ sent' = Append(sent, PendingEvent)
            /\ spc' = "relay"
            /\ CASE rpc = "sendOK" ->
                      /\ retv' = <<rreg, NoErr>>
                      /\ outcome' = "Succeeded"
                      /\ rpc' = "ret"
                      /\ UNCHANGED waits
                 [] rpc = "sendExhausted" ->
                      /\ retv' = <<rreg, rlerr>>
                      /\ outcome' = "ExhaustedFailure"
                      /\ rpc' = "ret"
                      /\ UNCHANGED waits
                 [] rpc = "sendFailed" ->
                      /\ waits' = Append(waits, delay)
                      /\ rpc' = "wait"
                      /\ UNCHANGED <<retv, outcome>>
            /\ UNCHANGED <<reg, panics>>
    /\ UNCHANGED <<maxAttempts, cancelled, lastPush, perr, fbClosed, logged,
                   attempt, calls, rreg, rlerr, delay, newreg, rerr>>
    /\ UNCHANGED <<optvars, addrvars>>

\* a relay that forwards only the events that carry an error
SupRelayErrorsOnly ==
    /\ spc = "relay"
    /\ logged' = IF f.Error # NoErr THEN Append(logged, f) ELSE logged
    /\ spc' = "range"
    /\ UNCHANGED <<maxAttempts, cancelled, reg, lastPush, perr, f, fbClosed, panics,
                   rpc, attempt, calls, rreg, rlerr, delay, waits, sent, outcome,
                   retv, newreg, rerr>>
    /\ UNCHANGED <<optvars, addrvars>>

\* line 210: the caller receives the relayed event
SupRelay ==
    /\ spc = "relay"
    /\ logged' = Append(logged, f)
    /\ spc' = "range"
    /\ UNCHANGED <<maxAttempts, cancelled, reg, lastPush, perr, f, fbClosed, panics,
                   rpc, attempt, calls, rreg, rlerr, delay, waits, sent, outcome,
                   retv, newreg, rerr>>
    /\ UNCHANGED <<optvars, addrvars>>

\* line 222
SupSleep ==
    /\ spc = "sleep"
    /\ spc' = "check"
    /\ UNCHANGED <<maxAttempts, cancelled, reg, lastPush, perr, f, fbClosed, panics,
                   logged, rpc, attempt, calls, rreg, rlerr, delay, waits, sent,
                   outcome, retv, newreg, rerr>>
    /\ UNCHANGED <<optvars, addrvars>>

\* the state of the supervisor and of the retry goroutine at the call of
\* CheckHealthAndReconnect
SupInit ==
    /\ cancelled = FALSE
    /\ spc = "check"
    /\ reg = 0
    /\ lastPush = NilReg
    /\ perr = NoErr
    /\ f = AnnounceEvent(NoErr)
    /\ fbClosed = FALSE
    /\ panics = 0
    /\ logged = <<>>
    /\ rpc = "idle"
    /\ attempt = 0
    /\ calls = 0
    /\ rreg = NilReg
    /\ rlerr = NoErr
    /\ delay = NoDelay
    /\ waits = <<>>
    /\ sent = <<>>
    /\ outcome = "none"
    /\ retv = <<NilReg, NoErr>>
    /\ newreg = NilReg
    /\ rerr = NoErr

\* no call of targetQueryValues
OptIdle ==
    /\ optsIn = <<>>
    /\ optPc = "idle"
    /\ optOut = <<>>
    /\ conn = <<>>

\* no call of ServiceAddresses
AddrIdle ==
    /\ addrIn = <<>>
    /\ addrPc = "idle"
    /\ addrOut = <<>>

Init ==
    /\ maxAttempts \in MaxAttemptsInputs
    /\ SupInit
    /\ OptIdle
    /\ AddrIdle

Next ==
    \/ Cancel
    \/ SupCtxDone
    \/ SupPush
    \/ SupAnnounce
    \/ SupRange
    \/ SupRelay
    \/ SupSleep
    \/ RetryCall
    \/ RetryTimer
    \/ RetryCancel
    \/ RetryReturn

Spec == Init /\ [][Next]_vars

(* Fairness: the Go scheduler runs every goroutine that can run, calls in
   flight return, the caller keeps receiving from logFeedback, and select
   chooses fairly among the cases that are ready.  Nothing forces the owner
   of the context to cancel it.  *)
FairSpec ==
    /\ Spec
    /\ WF_vars(SupCtxDone)
    /\ WF_vars(SupPush)
    /\ WF_vars(SupAnnounce)
    /\ WF_vars(SupRange)
    /\ WF_vars(SupRelay)
    /\ WF_vars(SupSleep)
    /\ WF_vars(RetryCall)
    /\ WF_vars(RetryTimer)
    /\ SF_vars(RetryCancel)
    /\ WF_vars(RetryReturn)

TypeOK ==
    /\ spc \in {"check", "sleep", "announce", "range", "relay", "returned", "panicked"}
    /\ rpc \in {"idle", "call", "wait", "ret", "done"} \cup SendPcs
    /\ outcome \in {"none", "Succeeded", "ExhaustedFailure", "Cancelled"}

----------------------------------------------------------------------------
(* targetQueryValues and the option setters, src/unnamed/part_001 *)

(* The options struct, lines 18-31.  A pointer field is <<>> when nil and
   <<v>> when it points to v.  *)
OptionFields == {"limit", "tag", "healthy", "wait", "insecure", "near", "timeout",
                 "maxbackoff", "token", "dc", "allowstale", "requireconsistent"}

\* var opt options, line 59
ZeroOptions == [k \in OptionFields |-> <<>>]

\* line 151
OPT_NEAR_IP == "_ip"

(* time.Duration.String() for a duration given in milliseconds:
   "0s", "500ms", "1.5s", "1m30s", "1h0m0s"; a leading "-" when negative *)
FracString(ms) ==
    LET d1 == ms \div 100
        d2 == (ms \div 10) % 10
        d3 == ms % 10
    IN IF ms = 0 THEN ""
       ELSE IF d3 # 0 THEN "." \o ToString(d1) \o ToString(d2) \o ToString(d3)
       ELSE IF d2 # 0 THEN "." \o ToString(d1) \o ToString(d2)
       ELSE "." \o ToString(d1)

PositiveDurationString(d) ==
    LET hours == d \div 3600000
        mins == (d \div 60000) % 60
        secs == (d \div 1000) % 60
    IN IF d < 1000 THEN ToString(d) \o "ms"
       ELSE (IF hours > 0 THEN ToString(hours) \o "h" ELSE "")
            \o (IF hours > 0 \/ mins > 0 THEN ToString(mins) \o "m" ELSE "")
            \o ToString(secs) \o FracString(d % 1000) \o "s"

DurationString(d) ==
    IF d = 0 THEN "0s"
    ELSE IF d < 0 THEN "-" \o PositiveDurationString(0 - d)
    ELSE PositiveDurationString(d)

\* fmt.Sprintf("%v", b) of a bool
BoolString(b) == IF b THEN "true" ELSE "false"

\* what an OptionFunc gives back: the options it was applied to, as it left
\* them, and its error ("" is nil)
OptionResult(options, error) == [options |-> options, err |-> error]

\* lines 107-114
WithTag(tag, options) ==
    IF tag # "" THEN OptionResult([options EXCEPT !.tag = <<tag>>], "")
    ELSE OptionResult(options, "")

\* lines 117-125
WithHealthy(healthy, options) ==
    IF healthy THEN OptionResult([options EXCEPT !.healthy = <<"true">>], "")
    ELSE OptionResult(options, "")

\* lines 127-138
WithWait(wait, options) ==
    IF wait < 0 THEN OptionResult(options, "wait time cannot be less than zero")
    ELSE IF wait # 0
         THEN OptionResult([options EXCEPT !.wait = <<DurationString(wait)>>], "")
         ELSE OptionResult(options, "")

\* lines 141-149
WithInsecure(insecure, options) ==
    IF ~insecure THEN OptionResult([options EXCEPT !.insecure = <<"false">>], "")
    ELSE OptionResult(options, "")

\* a WithNear that stores every non-empty node name
WithNearAnyNode(near, options) ==
    IF near = "" THEN OptionResult(options, "")
    ELSE OptionResult([options EXCEPT !.near = <<near>>], "")

\* lines 157-166
WithNear(near, options) ==
    IF (near # "" /\ near # OPT_NEAR_IP) \/ near = ""
    THEN OptionResult(options, "")
    ELSE OptionResult([options EXCEPT !.near = <<OPT_NEAR_IP>>], "")

\* a WithLimit that stores the limit before it validates it
WithLimitStoresFirst(limit, options) ==
    IF limit < 0
    THEN OptionResult([options EXCEPT !.limit = <<limit>>], "limit cannot be less than zero")
    ELSE IF limit # 0
         THEN OptionResult([options EXCEPT !.limit = <<limit>>], "")
         ELSE OptionResult(options, "")

\* lines 169-179
WithLimit(limit, options) ==
    IF limit < 0 THEN OptionResult(options, "limit cannot be less than zero")
    ELSE IF limit # 0
         THEN OptionResult([options EXCEPT !.limit = <<limit>>], "")
         ELSE OptionResult(options, "")

\* lines 182-193
WithTimeout(timeout, options) ==
    IF timeout < 0 THEN OptionResult(options, "timeout cannot be less than zero")
    ELSE IF timeout # 0
         THEN OptionResult([options EXCEPT !.timeout = <<DurationString(timeout)>>], "")
         ELSE OptionResult(options, "")

\* lines 196-207
WithMaxBackoff(maxbackoff, options) ==
    IF maxbackoff < 0 THEN OptionResult(options, "maxbackoff cannot be less than zero")
    ELSE IF maxbackoff # 0
         THEN OptionResult([options EXCEPT !.maxbackoff = <<DurationString(maxbackoff)>>], "")
         ELSE OptionResult(options, "")

\* lines 210-217
WithToken(token, options) ==
    IF token # "" THEN OptionResult([options EXCEPT !.token = <<token>>], "")
    ELSE OptionResult(options, "")

\* a WithDC that stores into the token field
WithDCIntoToken(dc, options) ==
    IF dc # "" THEN OptionResult([options EXCEPT !.token = <<dc>>], "")
    ELSE OptionResult(options, "")

\* lines 220-227
WithDC(dc, options) ==
    IF dc # "" THEN OptionResult([options EXCEPT !.dc = <<dc>>], "")
    ELSE OptionResult(options, "")

\* lines 230-235
WithAllowStale(stale, options) ==
    OptionResult([options EXCEPT !.allowstale = <<stale>>], "")

\* lines 238-243
WithRequireConsistent(require, options) ==
    OptionResult([options EXCEPT !.requireconsistent = <<require>>], "")

(* An OptionFunc value: the setter that made the closure and the argument
   it captured (s for a string, n for an int or a Duration in milliseconds,
   b for a bool) *)
OptionFunc(kind, s, n, b) == [kind |-> kind, s |-> s, n |-> n, b |-> b]

\* the call option(&opt) of line 61
ApplyOption(option, options) ==
    CASE option.kind = "WithTag" -> WithTag(option.s, options)
      [] option.kind = "WithHealthy" -> WithHealthy(option.b, options)
      [] option.kind = "WithWait" -> WithWait(option.n, options)
      [] option.kind = "WithInsecure" -> WithInsecure(option.b, options)
      [] option.kind = "WithNear" -> WithNear(option.s, options)
      [] option.kind = "WithLimit" -> WithLimit(option.n, options)
      [] option.kind = "WithTimeout" -> WithTimeout(option.n, options)
      [] option.kind = "WithMaxBackoff" -> WithMaxBackoff(option.n, options)
      [] option.kind = "WithToken" -> WithToken(option.s, options)
      [] option.kind = "WithDC" -> WithDC(option.s, options)
      [] option.kind = "WithAllowStale" -> WithAllowStale(option.b, options)
      [] option.kind = "WithRequireConsistent" -> WithRequireConsistent(option.b, options)

\* lines 60-64: the loop over opts from index i on; it stops at the first error
RECURSIVE ApplyAll(_, _, _)
ApplyAll(opts, i, options) ==
    IF i > Len(opts) THEN OptionResult(options, "")
    ELSE LET r == ApplyOption(opts[i], options)
         IN IF r.err # "" THEN r ELSE ApplyAll(opts, i + 1, r.options)

\* the key of url.Values each field is stored under, lines 66-101
QueryKey(field) ==
    CASE field = "maxbackoff" -> "max-backoff"
      [] field = "allowstale" -> "allow-stale"
      [] field = "requireconsistent" -> "require-consistent"
      [] OTHER -> field

\* the string stored for a field that is set, lines 66-101
QueryValue(field, options) ==
    CASE field = "limit" -> ToString(options.limit[1])
      [] field = "allowstale" -> BoolString(options.allowstale[1])
      [] field = "requireconsistent" -> BoolString(options.requireconsistent[1])
      [] OTHER -> options[field][1]

\* lines 65-101: url.Values as the set of its <<key, value>> entries
QueryValues(options) ==
    {<<QueryKey(k), QueryValue(k, options)>> : k \in {j \in OptionFields : options[j] # <<>>}}

(* lines 58-104.  values is the url.Values returned (<<>> stands for nil),
   err the error returned, opt the local opt as the function left it.  *)
targetQueryValues(opts) ==
    LET r == ApplyAll(opts, 1, ZeroOptions)
    IN IF r.err # ""
       THEN [values |-> <<>>, err |-> r.err, opt |-> r.options]
       ELSE [values |-> QueryValues(r.options), err |-> "", opt |-> r.options]

\* the option values the model passes
OptionInputs ==
    {OptionFunc("WithTag", s, 0, FALSE) : s \in {"", "a", "b"}}
    \cup {OptionFunc("WithHealthy", "", 0, b) : b \in BOOLEAN}
    \cup {OptionFunc("WithWait", "", n, FALSE) : n \in {-1, 0, 1500}}
    \cup {OptionFunc("WithInsecure", "", 0, b) : b \in BOOLEAN}
    \cup {OptionFunc("WithNear", s, 0, FALSE) : s \in {"", "_ip", "node1"}}
    \cup {OptionFunc("WithLimit", "", n, FALSE) : n \in {-1, 0, 5}}
    \cup {OptionFunc("WithTimeout", "", n, FALSE) : n \in {-1, 90000}}
    \cup {OptionFunc("WithMaxBackoff", "", n, FALSE) : n \in {-1, 3600500}}
    \cup {OptionFunc("WithToken", s, 0, FALSE) : s \in {"t"}}
    \cup {OptionFunc("WithDC", s, 0, FALSE) : s \in {"dc1"}}
    \cup {OptionFunc("WithAllowStale", "", 0, b) : b \in BOOLEAN}
    \cup {OptionFunc("WithRequireConsistent", "", 0, b) : b \in BOOLEAN}

\* the lists of at most MaxOpts option values
OptionLists == UNION {[1..n -> OptionInputs] : n \in 0..MaxOpts}

\* a call targetQueryValues(opts...) runs to its return
TargetQueryValues ==
    /\ optPc = "start"
    /\ optOut' = targetQueryValues(optsIn)
    /\ optPc' = "done"
    /\ UNCHANGED <<optsIn, conn>>
    /\ UNCHANGED <<supvars, addrvars>>

(* part_001 lines 40-55, what ServiceConnectGRPC returns for the result q of
   targetQueryValues: the wrapped error and no connection, or the
   connection grpc.NewClient opened for the target with these query values *)
ConnectResult(q) ==
    IF q.err # ""
    THEN [dialed |-> FALSE, err |-> "decode options: " \o q.err, query |-> <<>>]
    ELSE [dialed |-> TRUE, err |-> "", query |-> q.values]

\* part_001 lines 35-56: a call ServiceConnectGRPC(serviceName, opts...) runs
\* to its return
ServiceConnectGRPC ==
    /\ optPc = "start"
    /\ optOut' = targetQueryValues(optsIn)
    /\ conn' = ConnectResult(targetQueryValues(optsIn))
    /\ optPc' = "connected"
    /\ UNCHANGED optsIn
    /\ UNCHANGED <<supvars, addrvars>>

\* a call of targetQueryValues, directly or from ServiceConnectGRPC, with any
\* list of options; no supervisor runs
InitOpts ==
    /\ optsIn \in OptionLists
    /\ optPc = "start"
    /\ optOut = <<>>
    /\ conn = <<>>
    /\ maxAttempts = <<>>
    /\ SupInit
    /\ AddrIdle

NextOpts ==
    \/ TargetQueryValues
    \/ ServiceConnectGRPC

SpecOpts == InitOpts /\ [][NextOpts]_vars

----------------------------------------------------------------------------
(* Registry.ServiceAddresses, src/consul/consul.go lines 86-98, and the two
   not-found errors *)

\* most entries the backend returns in the model
MaxEntries == 3

(* A Go error made by errors.New or fmt.Errorf is a pointer: two errors are
   equal when they are the same allocation, whatever their text.  An error
   is modelled by the place that allocated it and its text.  *)
ErrorValue(site, text) == [site |-> site, text |-> text]

\* the nil error
NilError == ErrorValue("nil", "")

\* src/consul/consul.go line 11
ErrServicesNotFound == ErrorValue("consul.ErrServicesNotFound", "no service addresses found")

\* src/unnamed/part_000 line 28
ErrNotFound == ErrorValue("discovery.ErrNotFound", "no service addresses found")

\* an error of the backend's Health().Service
BackendError == ErrorValue("api.Health.Service", "connection refused")

\* line 95: fmt.Sprintf("%s:%d", e.Service.Address, e.Service.Port)
HostPort(e) == e.Address \o ":" \o ToString(e.Port)

\* lines 93-96: the loop over entries from index i on, appending to res
RECURSIVE AppendAddresses(_, _, _)
AppendAddresses(entries, i, res) ==
    IF i > Len(entries) THEN res
    ELSE AppendAddresses(entries, i + 1, Append(res, HostPort(entries[i])))

\* a ServiceAddresses without the test of line 90
ServiceAddressesNoEmptyTest(entries, err) ==
    IF err # NilError THEN [res |-> <<>>, err |-> err]
    ELSE [res |-> AppendAddresses(entries, 1, <<>>), err |-> NilError]

\* lines 86-98, for the (entries, err) the backend returned; <<>> is the nil slice
ServiceAddresses(entries, err) ==
    IF err # NilError THEN [res |-> <<>>, err |-> err]
    ELSE IF Len(entries) = 0 THEN [res |-> <<>>, err |-> ErrServicesNotFound]
    ELSE [res |-> AppendAddresses(entries, 1, <<>>), err |-> NilError]

\* the service entries the model's backend returns
EntryInputs == [Address : {"10.0.0.1", "db"}, Port : {0, 8080}]

\* what Health().Service returns: up to MaxEntries entries and an error or nil
BackendResults ==
    [entries : UNION {[1..n -> EntryInputs] : n \in 0..MaxEntries},
     err : {NilError, BackendError}]

\* a call r.ServiceAddresses(serviceName) runs to its return
CallServiceAddresses ==
    /\ addrPc = "start"
    /\ addrOut' = ServiceAddresses(addrIn.entries, addrIn.err)
    /\ addrPc' = "done"
    /\ UNCHANGED addrIn
    /\ UNCHANGED <<supvars, optvars>>

\* a call of ServiceAddresses against any backend result; nothing else runs
InitAddr ==
    /\ addrIn \in BackendResults
    /\ addrPc = "start"
    /\ addrOut = <<>>
    /\ maxAttempts = <<>>
    /\ SupInit
    /\ OptIdle

NextAddr == CallServiceAddresses

SpecAddr == InitAddr /\ [][NextAddr]_vars

----------------------------------------------------------------------------
(* Vocabulary of the properties *)

\* the retry goroutine has executed a return statement
Returned == rpc \in {"ret", "done"}

IsAnnounce(e) == e.Message.text = "trying new make registry and register"

IsFailed(e) == e.Message.text = "retry attempt failed repeat after"

IsTerminal(e) == e.Message.text \in {"retry attempt successful", "all attempts used"}

\* index of the last announcement the caller received, 0 if none
LastAnnounce ==
    LET idx == {i \in 1..Len(logged) : IsAnnounce(logged[i])}
    IN IF idx = {} THEN 0 ELSE CHOOSE i \in idx : \A j \in idx : j <= i

\* what the caller received after the announcement of the current episode
Relayed == SubSeq(logged, LastAnnounce + 1, Len(logged))

\* zero or more 'attempt failed' events, then exactly one terminal event
InfoThenTerminal(s) ==
    /\ Len(s) >= 1
    /\ IsTerminal(s[Len(s)])
    /\ \A i \in 1..(Len(s) - 1) : IsFailed(s[i])

\* the i-th event is the failure event of attempt i with the error of call i
\* and the delay waited after it
FailurePrefix(k) ==
    /\ Len(sent) >= k
    /\ Len(waits) >= k
    /\ \A i \in 1..k : sent[i] = FailedEvent(i, i, waits[i])

----------------------------------------------------------------------------
(* Properties *)

(* C1: whenever a liveness push failed and the retry task of that episode
   ended with success, the supervisor eventually makes the new handle its
   active handle and pushes on it, unless the context is cancelled.
   The code does not do this: nothing closes the feedback channel while the
   supervisor ranges over it, so the supervisor never leaves line 204. *)
C1_SwapAfterSuccess ==
    (outcome = "Succeeded") ~> (cancelled \/ (reg = retv[1] /\ lastPush = retv[1]))

(* C2: whenever the retry task of an episode used up its attempts, the
   supervisor eventually panics, exactly once. *)
C2_PanicAfterExhaustion ==
    (outcome = "ExhaustedFailure") ~> (panics = 1)

(* C3: once the context is cancelled, CheckHealthAndReconnect eventually
   returns, wherever the supervisor is at that moment. *)
C3_ReturnsAfterCancel ==
    cancelled ~> (spc = "returned")

(* C4: within an episode the events the caller received after the
   announcement are the events the retry task sent on feedback, in the same
   order, none dropped, none duplicated; the only event not yet delivered is
   the one the supervisor holds in f between lines 204 and 210. *)
C4_RelayOrder ==
    /\ spc = "range" => Relayed = sent
    /\ spc = "relay" => Relayed \o <<f>> = sent

C4_Witness ==
    /\ spc = "range"
    /\ rpc = "done"
    /\ Len(sent) >= 3
    /\ Relayed = sent

(* C5 as stated: every retry episode that has returned, whatever its
   outcome, sent zero or more 'attempt failed' events and then exactly one
   terminal event. *)
C5_TerminalAlways ==
    Returned => InfoThenTerminal(sent)

(* C5 amended: an episode that returned by success or by exhaustion sent
   zero or more 'attempt failed' events and then exactly one terminal event,
   and nothing after it; an episode that returned because the context was
   cancelled in backoff sent one or more 'attempt failed' events and no
   terminal event. *)
C5_TerminalUnlessCancelled ==
    Returned =>
        IF outcome = "Cancelled"
        THEN /\ Len(sent) >= 1
             /\ \A i \in 1..Len(sent) : IsFailed(sent[i])
        ELSE InfoThenTerminal(sent)

C5_Witness ==
    /\ rpc = "done"
    /\ outcome = "ExhaustedFailure"
    /\ Len(sent) = 3
    /\ Len(Relayed) = 3

(* C6: without cancellation, when the operation failed on its first k calls
   and succeeded on call k+1 (max = 0 or max > k), it was called k+1 times,
   the events are the k failure events, each with its call's error, then the
   success event of attempt k+1, the i-th backoff delay is 2^i seconds, and
   the handle of call k+1 is returned with a nil error. *)
C6_FailsThenSucceeds ==
    (outcome = "Succeeded" /\ ~cancelled) =>
        LET k == calls - 1 IN
        /\ Max = 0 \/ Max > k \/ Max < 0
        /\ attempt = k + 1
        /\ Len(sent) = k + 1
        /\ Len(waits) = k
        /\ FailurePrefix(k)
        /\ \A i \in 1..k : IsPow2Seconds(waits[i], i)
        /\ sent[k + 1] = SuccessEvent(k + 1)
        /\ retv = <<k + 1, NoErr>>

(* C7: with max = N >= 1 the operation is called at most N times; when all
   N calls failed the events are N-1 failure events and then 'all attempts
   used', no backoff wait follows the N-th failure, and the error of the
   N-th call is returned. *)
C7_Exhaustion ==
    /\ Max >= 1 => calls <= Max
    /\ (Max >= 1 /\ calls = Max /\ rlerr # NoErr) => rpc \in {"sendExhausted", "ret", "done"}
    /\ outcome = "ExhaustedFailure" =>
        /\ Max >= 1
        /\ calls = Max
        /\ Len(sent) = Max
        /\ Len(waits) = Max - 1
        /\ FailurePrefix(Max - 1)
        /\ sent[Max] = ExhaustedEvent
        /\ retv = <<NilReg, Max>>

C7_Witness ==
    /\ outcome = "ExhaustedFailure"
    /\ Max = MaxMax
    /\ rpc = "done"
    /\ rerr = MaxMax

(* C8: when the context is cancelled while the retry waits in backoff, the
   retry returns a nil handle and the context's error, not the error of the
   failed call, and from then on it calls the operation no more and sends
   no event. *)
C8_CancelInBackoff ==
    /\ [](outcome = "Cancelled" =>
            /\ retv = <<NilReg, CtxErr>>
            /\ retv[2] # rlerr
            /\ rpc = "done" => (newreg = NilReg /\ rerr = CtxErr))
    /\ [][outcome = "Cancelled" =>
            (calls' = calls /\ sent' = sent /\ outcome' = "Cancelled")]_vars

C8_Witness ==
    /\ outcome = "Cancelled"
    /\ rpc = "done"
    /\ calls >= 2

(* C9: with max = 0, and with maxAttempts omitted, the retry never sends
   'all attempts used' and never returns the operation's error, however many
   calls failed; an episode ends only by success or by cancellation. *)
C9_Unbounded ==
    (maxAttempts = <<>> \/ maxAttempts = <<0>>) =>
        /\ rpc # "sendExhausted"
        /\ \A i \in 1..Len(sent) : sent[i] # ExhaustedEvent
        /\ outcome \in {"none", "Succeeded", "Cancelled"}
        /\ Returned => retv[2] \in {NoErr, CtxErr}
        /\ rerr \in {NoErr, CtxErr}

C9_Witness ==
    /\ maxAttempts = <<>>
    /\ rpc = "wait"
    /\ calls = MaxFails
    /\ Len(sent) = MaxFails

----------------------------------------------------------------------------
(* Properties of targetQueryValues *)

\* the permutations of 1..n
Perms(n) == Permutations(1..n)

\* the list opts in the order p
Permute(opts, p) == [i \in 1..Len(opts) |-> opts[p[i]]]

\* every duration and limit argument of the list is non-negative
AllValid(opts) == \A i \in 1..Len(opts) : opts[i].n >= 0

\* the setter writes its field: its argument is not the one it ignores
Writes(o) ==
    CASE o.kind \in {"WithTag", "WithToken", "WithDC"} -> o.s # ""
      [] o.kind \in {"WithWait", "WithLimit", "WithTimeout", "WithMaxBackoff"} -> o.n # 0
      [] o.kind = "WithHealthy" -> o.b
      [] o.kind = "WithInsecure" -> ~o.b
      [] o.kind = "WithNear" -> o.s = "_ip"
      [] OTHER -> TRUE

\* two setters of the same kind that write different arguments
Conflict(o1, o2) == o1.kind = o2.kind /\ o1 # o2 /\ Writes(o1) /\ Writes(o2)

NoConflict(opts) == \A i, j \in 1..Len(opts) : ~Conflict(opts[i], opts[j])

\* every order of the list gives the result the call gave
SameInEveryOrder ==
    \A p \in Perms(Len(optsIn)) :
        targetQueryValues(Permute(optsIn, p)) = optOut

(* C10 as stated: for every list of option setters with non-negative
   arguments, targetQueryValues gives the same snapshot and the same query
   values for every order of the list. *)
C10_OrderIndependent ==
    (optPc = "done" /\ AllValid(optsIn)) => SameInEveryOrder

(* C10 amended: for every list of option setters with non-negative
   arguments in which no two setters of the same kind write different
   arguments, targetQueryValues gives the same snapshot and the same query
   values for every order of the list.  (Of two setters of the same kind
   that both write, the later one wins.) *)
C10_OrderIndependentNoConflict ==
    (optPc = "done" /\ AllValid(optsIn) /\ NoConflict(optsIn)) => SameInEveryOrder

C10_Witness ==
    /\ optPc = "done"
    /\ Len(optsIn) = MaxOpts
    /\ AllValid(optsIn)
    /\ NoConflict(optsIn)
    /\ \A i, j \in 1..Len(optsIn) : optsIn[i].kind = optsIn[j].kind => i = j
    /\ Cardinality(optOut.values) = MaxOpts
    /\ SameInEveryOrder

\* DurationString gives what time.Duration.String() gives
DurationStringExamples ==
    /\ DurationString(0) = "0s"
    /\ DurationString(500) = "500ms"
    /\ DurationString(1500) = "1.5s"
    /\ DurationString(1050) = "1.05s"
    /\ DurationString(90000) = "1m30s"
    /\ DurationString(3600000) = "1h0m0s"
    /\ DurationString(3600500) = "1h0m0.5s"
    /\ DurationString(-1) = "-1ms"

----------------------------------------------------------------------------
(* Properties of the setters, of ServiceConnectGRPC and of ServiceAddresses *)

\* a call of targetQueryValues, direct or from ServiceConnectGRPC, has returned
OptReturned == optPc \in {"done", "connected"}

\* index of the first setter of the list with a negative argument
FirstInvalid(opts) ==
    CHOOSE i \in 1..Len(opts) : opts[i].n < 0 /\ \A j \in 1..(i - 1) : opts[j].n >= 0

\* the setters of the model that carry a negative argument
NegativeInputs == {o \in OptionInputs : o.n < 0}

(* C11: a setter WithWait, WithLimit, WithTimeout or WithMaxBackoff with a
   negative argument returns an error and leaves the snapshot it is applied
   to as it was; targetQueryValues then returns that error and nil values,
   with the snapshot as the setters before the rejected one left it, and
   ServiceConnectGRPC returns an error without calling grpc.NewClient. *)
C11_NegativeRejected ==
    OptReturned =>
        /\ \A o \in NegativeInputs :
              /\ ApplyOption(o, optOut.opt).err # ""
              /\ ApplyOption(o, optOut.opt).options = optOut.opt
        /\ ~AllValid(optsIn) =>
              LET i == FirstInvalid(optsIn) IN
              /\ optOut.err = ApplyOption(optsIn[i], ZeroOptions).err
              /\ optOut.err # ""
              /\ optOut.values = <<>>
              /\ optOut.opt = targetQueryValues(SubSeq(optsIn, 1, i - 1)).opt
              /\ optPc = "connected" => (~conn.dialed /\ conn.err = "decode options: " \o optOut.err)

C11_Witness ==
    /\ optPc = "connected"
    /\ Len(optsIn) = MaxOpts
    /\ optsIn[1] = OptionFunc("WithTag", "a", 0, FALSE)
    /\ optsIn[2] = OptionFunc("WithLimit", "", -1, FALSE)
    /\ optOut.opt = [ZeroOptions EXCEPT !.tag = <<"a">>]
    /\ optOut.err = "limit cannot be less than zero"
    /\ ~conn.dialed

\* some setter of the list is WithNear("_ip")
HasNearIP(opts) == \E i \in 1..Len(opts) : opts[i].kind = "WithNear" /\ opts[i].s = "_ip"

(* C12: WithNear sets the near field, to "_ip", exactly when its argument is
   "_ip"; for "" and for every other value it leaves the field as it was;
   it never returns an error. *)
C12_NearSentinel ==
    OptReturned =>
        /\ \A o \in {x \in OptionInputs : x.kind = "WithNear"} :
              LET r == ApplyOption(o, optOut.opt) IN
              /\ r.err = ""
              /\ r.options = IF o.s = "_ip" THEN [optOut.opt EXCEPT !.near = <<"_ip">>]
                             ELSE optOut.opt
        /\ AllValid(optsIn) =>
              optOut.opt.near = IF HasNearIP(optsIn) THEN <<"_ip">> ELSE <<>>

C12_Witness ==
    /\ optPc = "done"
    /\ Len(optsIn) >= 2
    /\ optsIn[1] = OptionFunc("WithNear", "_ip", 0, FALSE)
    /\ optsIn[2] = OptionFunc("WithNear", "node1", 0, FALSE)
    /\ optOut.opt.near = <<"_ip">>
    /\ <<"near", "_ip">> \in optOut.values

(* C13: ServiceAddresses never returns an empty list with a nil error: for
   no entries it returns the not-found error, for n >= 1 entries it returns
   the n "host:port" strings, one per entry in order, and a nil error. *)
C13_NeverEmptySuccess ==
    addrPc = "done" =>
        /\ ~(addrOut.res = <<>> /\ addrOut.err = NilError)
        /\ (addrIn.err = NilError /\ addrIn.entries = <<>>) =>
              /\ addrOut.res = <<>>
              /\ addrOut.err.text = "no service addresses found"
        /\ (addrIn.err = NilError /\ addrIn.entries # <<>>) =>
              /\ addrOut.err = NilError
              /\ Len(addrOut.res) = Len(addrIn.entries)
              /\ \A i \in 1..Len(addrIn.entries) :
                    addrOut.res[i] = addrIn.entries[i].Address \o ":"
                                        \o ToString(addrIn.entries[i].Port)

C13_Witness ==
    /\ addrPc = "done"
    /\ addrIn.err = NilError
    /\ addrIn.entries = <<>>
    /\ addrOut.err # NilError

(* C18: the error ServiceAddresses returns for an empty result set is the
   shared error discovery.ErrNotFound, the same error value, so that a
   caller recognises it by comparing with that error. *)
C18_SharedNotFound ==
    (addrPc = "done" /\ addrIn.err = NilError /\ addrIn.entries = <<>>) =>
        addrOut.err = ErrNotFound

----------------------------------------------------------------------------
(* Further properties of retry and of CheckHealthAndReconnect *)

(* C14: the feedback channel of an episode is closed when the episode's
   retry task completes, whatever its outcome, so that the range loop of the
   supervisor ends.  The code closes feedback only in the deferred close of
   line 179, when CheckHealthAndReconnect returns. *)
C14_ClosedAtCompletion ==
    (rpc = "done") ~> (fbClosed /\ spc \notin {"range", "relay"})

\* a < b for two Durations (signed 64-bit integers)
DurationLess(a, b) ==
    IF IsNegative(a) # IsNegative(b) THEN IsNegative(a)
    ELSE LET diff == (a \ b) \cup (b \ a)
         IN diff # {} /\ (CHOOSE i \in diff : \A j \in diff : j <= i) \in b

(* C15: for every attempt n >= 1 the retry reaches, the delay
   time.Second << n is 2^n seconds: positive, and greater than the delay of
   attempt n-1. *)
C15_DelayDoubles ==
    \A n \in 1..Len(waits) :
        /\ waits[n] = Delay(n)
        /\ IsPow2Seconds(waits[n], n)
        /\ IsPositive(waits[n])
        /\ DurationLess(Delay(n - 1), waits[n])

(* C16: the supervisor panics only when the retry task of the episode ended
   in ExhaustedFailure; a retry task that ended because the context was
   cancelled in backoff never leads to the panic. *)
C16_PanicOnlyOnExhaustion ==
    /\ (panics > 0 \/ spc = "panicked") => outcome = "ExhaustedFailure"
    /\ outcome = "Cancelled" => (panics = 0 /\ spc # "panicked")

C16_Witness ==
    /\ outcome = "Cancelled"
    /\ rpc = "done"
    /\ rerr = CtxErr
    /\ spc = "range"
    /\ panics = 0

(* C17: the supervisor reads newreg and rerr, and changes its active handle,
   only after the retry goroutine has assigned them and ended; no push uses
   a handle, and no panic an error, that the goroutine has not finished
   writing. *)
C17_NoTornRead ==
    /\ [][reg' # reg => (rpc = "done" /\ newreg = retv[1] /\ reg' = newreg)]_vars
    /\ [][panics' # panics => (rpc = "done" /\ rerr = retv[2])]_vars
    /\ [](rpc \notin {"idle", "done"} => (reg = 0 /\ lastPush \in {NilReg, 0}))

C17_Witness ==
    /\ rpc = "ret"
    /\ outcome = "Succeeded"
    /\ retv[1] # newreg
    /\ spc = "range"
    /\ reg = 0

(* C19: a negative max behaves as unbounded: the retry never sends 'all
   attempts used' and never returns the operation's error; 'all attempts
   used' occurs only for max >= 1 and only after exactly max failed
   calls. *)
C19_NegativeMaxUnbounded ==
    /\ Max < 0 =>
        /\ rpc # "sendExhausted"
        /\ outcome # "ExhaustedFailure"
        /\ \A i \in 1..Len(sent) : sent[i] # ExhaustedEvent
        /\ Returned => retv[2] \in {NoErr, CtxErr}
    /\ (rpc = "sendExhausted" \/ outcome = "ExhaustedFailure"
            \/ \E i \in 1..Len(sent) : sent[i] = ExhaustedEvent) =>
        /\ Max >= 1
        /\ calls = Max
        /\ rlerr = Max
        /\ Len(waits) = Max - 1

C19_Witness ==
    /\ maxAttempts = <<-1>>
    /\ rpc = "wait"
    /\ calls = MaxFails
    /\ Len(waits) = MaxFails

\* the retry goroutine has been started and has not ended
Running == rpc \notin {"idle", "done"}

(* C20: at most one retry task runs: while a retry goroutine runs the
   supervisor is in the range loop of lines 204-211, where it starts no
   goroutine (line 201) and makes no liveness push (line 185). *)
C20_OneRetryTask ==
    /\ [](Running => spc \in {"range", "relay"})
    /\ [][Running => (lastPush' = lastPush /\ (rpc' = "call" => rpc \in {"call", "wait"}))]_vars

C20_Witness ==
    /\ rpc = "wait"
    /\ spc = "range"
    /\ calls >= 2
    /\ lastPush = 0

====
